---- MODULE Spec2Model ----
(***************************************************************************)
(* Attribution pipeline of the Telegram bot admin dashboard: the click     *)
(* redirect endpoint, the cookie-completion endpoint, the Telegram webhook *)
(* with its chat_member handler and the Facebook conversion call.          *)
(*                                                                         *)
(* Time is counted in ticks of 30 000 ms.  Every awaited store or network  *)
(* call of the chat_member handler is a step of its own, so that webhook   *)
(* deliveries interleave with each other and with the other endpoints the  *)
(* way the Node event loop lets them.                                      *)
(***************************************************************************)
EXTENDS Integers, Sequences, FiniteSets, TLC

\* ------------------------------------------------------------------ bounds
MaxTime == 11
MaxClicks == 2
MaxConversions == 2
MaxUpdates == 3

\* ------------------------------------------------------- program constants
\* 5 * 60 * 1000 ms, in ticks
FiveMinutes == 10
\* getRecentClickData(telegramUserId, 2): 2 minutes, in ticks
TwoMinutes == 4

\* The instants at which requests arrive and the clock is read: 0 s, 30 s, 90 s,
\* 3 min, and every tick past 5 min.
Instants == {t \in 0..MaxTime : t \in {0, 1, 3, 6} \/ t > FiveMinutes}

\* ------------------------------------------------------------------ values
Null == "null"
Undef == "undefined"
NoTime == 0 - 1

Procs == {"p1"}
Users == {"u1", "u2"}

CAMPUS_CHANNEL_ID == "-1001930548228"
OtherChatId == "-1000000000001"
ChatIds == {CAMPUS_CHANNEL_ID, OtherChatId}

\* TelegramChatMember.status
MemberStatuses == {"creator", "administrator", "member", "restricted", "left", "kicked"}

\* rows of welcome_messages before any admin request
InitialWelcomeMessages ==
    { [id |-> "m1", source |-> "default", buttonLink |-> "https://t.me/a"],
      [id |-> "m2", source |-> "facebookads", buttonLink |-> "https://t.me/b?x=1"],
      [id |-> "m3", source |-> "referral", buttonLink |-> Null] }

\* :messageId path parameters a visitor can send; m4 names no row
MessageIds == {"m1", "m2", "m3", "m4"}

\* cookie values as they arrive in a query string or a JSON body
RawCookiePairs == { <<Undef, Undef>>, <<"A", "B">>, <<"A", "">>, <<"", "B">> }

VARIABLES
    now,          \* Date.now() / the database clock, in ticks
    linkClicks,   \* table link_clicks, in insertion order; a row's id is its index
    botUsers,     \* table bot_users, keyed by telegramId
    pc,           \* where each in-flight chat_member webhook delivery stands
    upd,          \* the update each delivery slot received last
    conversions,  \* the calls issued to the Facebook Conversion API, in order
    nextUpdateId, \* the next update_id Telegram hands out
    lastReq,      \* the last HTTP request answered, with its status
    lastOut,      \* what the answer to it sent out: a redirect target, a bot message
    welcomeMessages, \* table welcome_messages
    admin,        \* where each in-flight upsertWelcomeMessage call stands
    starts        \* where each in-flight /start message stands

vars == <<now, linkClicks, botUsers, pc, upd, conversions, nextUpdateId, lastReq, lastOut,
          welcomeMessages, admin, starts>>

\* the admin requests and /start messages in flight, and the table the former write
otherVars == <<welcomeMessages, admin, starts>>

\* ----------------------------------------------------------------- helpers
\* JavaScript truthiness of a string-or-missing value
Truthy(v) == v # Undef /\ v # Null /\ v # ""

\* `x || null`
OrNull(v) == IF Truthy(v) THEN v ELSE Null

NoUpdate == [update_id |-> 0, chat |-> OtherChatId, user |-> "u1", old |-> "left", new |-> "left"]
NoReq == [ep |-> "none", status |-> 0]

\* no row of a telegramId; rows counts the rows that carry it
NoBotUser == [exists |-> FALSE, rows |-> 0, source |-> Null, fbclid |-> Null,
              lastActiveAt |-> NoTime,
              campusFreeChannel |-> "notjoined", channelJoinedAt |-> NoTime]
\* a row as a plain /start at time 0 inserts it: the column defaults of bot_users
NewBotUser == [exists |-> TRUE, rows |-> 1, source |-> "Direct", fbclid |-> Null,
               lastActiveAt |-> 0,
               campusFreeChannel |-> "notjoined", channelJoinedAt |-> NoTime]

NoOut == [redirect |-> << >>, messaged |-> FALSE]

AdminSlots == {"a1", "a2"}
StartSlots == {"s1", "s2"}
NoAdmin == [pc |-> "idle", source |-> Null, buttonLink |-> Null, existing |-> Null]
NoStart == [pc |-> "idle", user |-> "u1", source |-> Null, fbclid |-> Null]

Init ==
    /\ now = 0
    /\ linkClicks = << >>
    /\ botUsers = [u \in Users |-> IF u = "u1" THEN NewBotUser ELSE NoBotUser]
    /\ pc = [p \in Procs |-> "idle"]
    /\ upd = [p \in Procs |-> NoUpdate]
    /\ conversions = << >>
    /\ nextUpdateId = 1
    /\ lastReq = NoReq
    /\ lastOut = NoOut
    /\ welcomeMessages = InitialWelcomeMessages
    /\ admin = [a \in AdminSlots |-> NoAdmin]
    /\ starts = [s \in StartSlots |-> NoStart]

\* the clock advances
Tick ==
    /\ \E t \in Instants :
          /\ t > now
          /\ \A t2 \in Instants : t2 > now => t <= t2
          /\ now' = t
    /\ UNCHANGED <<linkClicks, botUsers, pc, upd, conversions, nextUpdateId, lastReq, lastOut>>
    /\ UNCHANGED otherVars

\* ------------------------------------------------------------ link_clicks
\* the row trackLinkClick inserts: id generated, clicked_at defaultNow()
NewClick(clicks, clickData, t) ==
    [id |-> Len(clicks) + 1,
     welcomeMessageId |-> clickData.welcomeMessageId,
     telegramUserId |-> clickData.telegramUserId,
     fbclid |-> clickData.fbclid,
     fbc |-> clickData.fbc,
     fbp |-> clickData.fbp,
     clickedAt |-> t]

\* mutant: an upsert on (message, user) in place of the insert
trackLinkClick_Upsert(clicks, clickData, t) ==
    IF \E i \in DOMAIN clicks :
          /\ clicks[i].welcomeMessageId = clickData.welcomeMessageId
          /\ clicks[i].telegramUserId = clickData.telegramUserId
    THEN [i \in DOMAIN clicks |->
            IF /\ clicks[i].welcomeMessageId = clickData.welcomeMessageId
               /\ clicks[i].telegramUserId = clickData.telegramUserId
            THEN [clicks[i] EXCEPT !.fbc = clickData.fbc, !.fbp = clickData.fbp, !.clickedAt = t]
            ELSE clicks[i]]
    ELSE Append(clicks, NewClick(clicks, clickData, t))

\* mutant: a row inserted without cookies takes those of the pair's latest row
trackLinkClick_InheritsCookies(clicks, clickData, t) ==
    LET same == {i \in DOMAIN clicks :
                    /\ clicks[i].welcomeMessageId = clickData.welcomeMessageId
                    /\ clicks[i].telegramUserId = clickData.telegramUserId}
        row == NewClick(clicks, clickData, t)
    IN  IF same = {} \/ clickData.fbc # Null THEN Append(clicks, row)
        ELSE LET last == CHOOSE i \in same : \A j \in same : j <= i
             IN  Append(clicks, [row EXCEPT !.fbc = clicks[last].fbc, !.fbp = clicks[last].fbp])

\* db.insert(linkClicks).values(clickData).returning()
trackLinkClick(clicks, clickData, t) == Append(clicks, NewClick(clicks, clickData, t))

\* mutant: the WHERE clause without its clicked_at condition
RecentMatch_NoWindow(c, messageId, userId, t) ==
    /\ c.welcomeMessageId = messageId
    /\ c.telegramUserId = userId

\* the WHERE clause of updateClickCookies
RecentMatch(c, messageId, userId, t) ==
    /\ c.welcomeMessageId = messageId
    /\ c.telegramUserId = userId
    /\ c.clickedAt >= t - FiveMinutes

\* mutant: an insert when the update matches no row
updateClickCookies_Upsert(clicks, messageId, userId, fbc, fbp, t) ==
    IF \E i \in DOMAIN clicks : RecentMatch(clicks[i], messageId, userId, t)
    THEN [i \in DOMAIN clicks |->
            IF RecentMatch(clicks[i], messageId, userId, t)
            THEN [clicks[i] EXCEPT !.fbc = fbc, !.fbp = fbp]
            ELSE clicks[i]]
    ELSE Append(clicks, NewClick(clicks, [welcomeMessageId |-> messageId,
                                          telegramUserId |-> userId,
                                          fbclid |-> Null,
                                          fbc |-> fbc, fbp |-> fbp], t))

\* mutant: the update also stamps the row with the time of the update
updateClickCookies_Touch(clicks, messageId, userId, fbc, fbp, t) ==
    [i \in DOMAIN clicks |->
        IF RecentMatch(clicks[i], messageId, userId, t)
        THEN [clicks[i] EXCEPT !.fbc = fbc, !.fbp = fbp, !.clickedAt = t]
        ELSE clicks[i]]

\* mutant: the update spares the rows whose cookies are already set
updateClickCookies_WriteOnce(clicks, messageId, userId, fbc, fbp, t) ==
    [i \in DOMAIN clicks |->
        IF /\ RecentMatch(clicks[i], messageId, userId, t)
           /\ clicks[i].fbc = Null
           /\ clicks[i].fbp = Null
        THEN [clicks[i] EXCEPT !.fbc = fbc, !.fbp = fbp]
        ELSE clicks[i]]

\* mutant: the update leaves a column alone when it is given no value for it
updateClickCookies_KeepOnNull(clicks, messageId, userId, fbc, fbp, t) ==
    [i \in DOMAIN clicks |->
        IF RecentMatch(clicks[i], messageId, userId, t)
        THEN [clicks[i] EXCEPT !.fbc = IF fbc = Null THEN @ ELSE fbc,
                               !.fbp = IF fbp = Null THEN @ ELSE fbp]
        ELSE clicks[i]]

\* db.update(linkClicks).set({fbc, fbp}).where(...)
updateClickCookies(clicks, messageId, userId, fbc, fbp, t) ==
    [i \in DOMAIN clicks |->
        IF RecentMatch(clicks[i], messageId, userId, t)
        THEN [clicks[i] EXCEPT !.fbc = fbc, !.fbp = fbp]
        ELSE clicks[i]]

\* storage.updateCompleteClickData(messageId, userId, {fbclid, fbc, fbp, userAgent}):
\* merges the cookie data into every recent record of the (message, user) pair; the
\* attribution id of a record is the one captured at click time
updateCompleteClickData(clicks, messageId, userId, data, t) ==
    updateClickCookies(clicks, messageId, userId, data.fbc, data.fbp, t)

\* messages.find(m => m.id === messageId)
FindMessage(messageId) == {m \in welcomeMessages : m.id = messageId}

\* mutant: the test without its buttonLink half
LinkNotFound_IgnoresLink(messageId) == FindMessage(messageId) = {}

\* !message || !message.buttonLink
LinkNotFound(messageId) ==
    \/ FindMessage(messageId) = {}
    \/ \A m \in FindMessage(messageId) : ~Truthy(m.buttonLink)

\* message.buttonLink of the row messageId names
ButtonLinkOf(messageId) ==
    IF FindMessage(messageId) = {} THEN Null
    ELSE (CHOOSE m \in FindMessage(messageId) : TRUE).buttonLink

\* a URL as the sequence of its parts: the text before the query string, then "?" and
\* the parameters with the "&" between them
UrlTokens(link) ==
    IF link = "https://t.me/b?x=1" THEN <<"https://t.me/b", "?", "x=1">> ELSE <<link>>

\* finalUrl.includes('?')
IncludesQuery(url) == \E i \in DOMAIN url : url[i] = "?"

\* finalUrl.includes('?') ? '&' : '?'
Separator(url) == IF IncludesQuery(url) THEN "&" ELSE "?"

\* urlParams.toString() of the parameters appended in order, those without a value
\* left out
RECURSIVE UrlParams(_)
UrlParams(params) ==
    IF params = << >> THEN << >>
    ELSE LET rest == UrlParams(Tail(params))
             p == Head(params)
         IN  IF ~Truthy(p[2]) THEN rest
             ELSE IF rest = << >> THEN <<p[1], p[2]>>
             ELSE <<p[1], p[2], "&">> \o rest

\* finalUrl: message.buttonLink with fbclid, fbc and fbp of the query appended
FinalUrl(link, fbclid, fbc, fbp) ==
    LET base == UrlTokens(link)
        params == UrlParams(<< <<"fbclid=", fbclid>>, <<"fbc=", fbc>>, <<"fbp=", fbp>> >>)
    IN  IF params = << >> THEN base ELSE base \o <<Separator(base)>> \o params

\* window.location.href of the tracking page
PageTarget(finalUrl, fbclid) ==
    IF Truthy(fbclid) THEN finalUrl \o <<Separator(finalUrl), "fbclid=", fbclid>> ELSE finalUrl

\* where the answer sends the browser: res.redirect(finalUrl), or the page's redirect
RedirectTarget(link, fbclid, fbc, fbp, direct) ==
    IF direct THEN FinalUrl(link, fbclid, fbc, fbp)
    ELSE PageTarget(FinalUrl(link, fbclid, fbc, fbp), fbclid)

\* the status the click endpoint answers with
ClickStatus(messageId, direct, fault) ==
    IF fault = "read" THEN 500
    ELSE IF LinkNotFound(messageId) THEN 404
    ELSE IF fault = "write" THEN 500
    ELSE IF direct THEN 302
    ELSE 200

\* GET /r/:messageId/:userId
ClickVisit(messageId, userId, rawFbclid, rawFbc, rawFbp, direct, fault) ==
    LET status == ClickStatus(messageId, direct, fault)
        stored == status \in {200, 302}
    IN  /\ stored => Len(linkClicks) < MaxClicks
        /\ linkClicks' =
              IF stored
              THEN trackLinkClick(linkClicks,
                                  [welcomeMessageId |-> messageId,
                                   telegramUserId |-> userId,
                                   fbclid |-> OrNull(rawFbclid),
                                   fbc |-> OrNull(rawFbc),
                                   fbp |-> OrNull(rawFbp)],
                                  now)
              ELSE linkClicks
        /\ lastReq' = [ep |-> "click", status |-> status]
        /\ lastOut' = [NoOut EXCEPT !.redirect =
                          IF stored
                          THEN RedirectTarget(ButtonLinkOf(messageId), rawFbclid, rawFbc,
                                              rawFbp, direct)
                          ELSE << >>]
        /\ UNCHANGED <<now, botUsers, pc, upd, conversions, nextUpdateId>>
        /\ UNCHANGED otherVars

\* mutant: the endpoint without its test of the required parameters
UpdateStatus_NoValidation(messageId, userId, storeOk) == IF ~storeOk THEN 500 ELSE 200

\* the status the cookie-completion endpoint answers with
UpdateStatus(messageId, userId, storeOk) ==
    IF ~Truthy(messageId) \/ ~Truthy(userId) THEN 400
    ELSE IF ~storeOk THEN 500
    ELSE 200

\* POST /api/update-click-data
UpdateClickData(messageId, userId, rawFbclid, rawFbc, rawFbp, storeOk) ==
    LET status == UpdateStatus(messageId, userId, storeOk)
    IN  /\ linkClicks' =
              IF status = 200
              THEN updateCompleteClickData(linkClicks, messageId, userId,
                                           [fbclid |-> OrNull(rawFbclid),
                                            fbc |-> OrNull(rawFbc), fbp |-> OrNull(rawFbp)],
                                           now)
              ELSE linkClicks
        /\ lastReq' = [ep |-> "cookies", status |-> status]
        /\ lastOut' = NoOut
        /\ UNCHANGED <<now, botUsers, pc, upd, conversions, nextUpdateId>>
        /\ UNCHANGED otherVars

\* --------------------------------------------------------------- bot_users
\* db.select().from(botUsers).where(eq(botUsers.telegramId, telegramId))
getBotUserByTelegramId(users, telegramId) == users[telegramId]

\* storage.updateChannelStatus(telegramId, status): writes campus_free_channel and,
\* on a move into joined, channel_joined_at
updateChannelStatus(users, telegramId, channelStatus, t) ==
    IF ~users[telegramId].exists THEN users
    ELSE [users EXCEPT ![telegramId] =
            [@ EXCEPT !.campusFreeChannel = channelStatus,
                      !.channelJoinedAt = IF channelStatus = "joined" THEN t ELSE @]]

\* mutant: bot_users without the unique constraint on telegram_id
DuplicateKey_Never(users, telegramId) == FALSE

\* telegramId: varchar("telegram_id").notNull().unique(): an insert of a telegramId
\* that has a row fails with error 23505
DuplicateKey(users, telegramId) == users[telegramId].exists

\* db.insert(botUsers).values(userData): one more row of the telegramId, with the
\* column defaults for what userData leaves out
createBotUser(users, userData, t) ==
    [users EXCEPT ![userData.telegramId] =
        [NewBotUser EXCEPT !.rows = users[userData.telegramId].rows + 1,
                           !.source = userData.source,
                           !.fbclid = userData.fbclid,
                           !.lastActiveAt = t]]

\* mutant: the update writes the whole row back with its defaults
updateBotUserActivity_ResetsChannel(users, telegramId, fbclid, t) ==
    IF ~users[telegramId].exists THEN users
    ELSE [users EXCEPT ![telegramId] =
            [@ EXCEPT !.lastActiveAt = t,
                      !.fbclid = IF Truthy(fbclid) THEN fbclid ELSE @,
                      !.campusFreeChannel = "notjoined",
                      !.channelJoinedAt = NoTime]]

\* db.update(botUsers).set({lastActiveAt, messageCount + 1[, fbclid]}).where(telegramId):
\* message_count, which nothing reads, is not carried
updateBotUserActivity(users, telegramId, fbclid, t) ==
    IF ~users[telegramId].exists THEN users
    ELSE [users EXCEPT ![telegramId] =
            [@ EXCEPT !.lastActiveAt = t,
                      !.fbclid = IF Truthy(fbclid) THEN fbclid ELSE @]]

\* mutant: any row of the user inside the window, not the most recent one
getRecentClickData_AnyInWindow(clicks, telegramUserId, minutes, t) ==
    {i \in DOMAIN clicks :
        /\ clicks[i].telegramUserId = telegramUserId
        /\ clicks[i].clickedAt >= t - minutes}

\* storage.getRecentClickData(telegramUserId, minutes): the rows of the user clicked
\* within the window that no other such row is more recent than
getRecentClickData(clicks, telegramUserId, minutes, t) ==
    LET inWindow == {i \in DOMAIN clicks :
                        /\ clicks[i].telegramUserId = telegramUserId
                        /\ clicks[i].clickedAt >= t - minutes}
    IN  {i \in inWindow : \A j \in inWindow : clicks[j].clickedAt <= clicks[i].clickedAt}

\* ------------------------------------------------------- chat_member updates
\* mutant: every status but left counted as a membership
IsJoinedStatus_AnyActive(newStatus) ==
    newStatus \in {"member", "administrator", "creator", "kicked", "restricted"}

\* newStatus === 'member' || newStatus === 'administrator' || newStatus === 'creator'
IsJoinedStatus(newStatus) == newStatus \in {"member", "administrator", "creator"}

\* newStatus === 'left' || newStatus === 'kicked'
IsLeftStatus(newStatus) == newStatus \in {"left", "kicked"}

\* mutant: the test without its 'kicked' half
WasOutside_OnlyLeft(oldStatus) == oldStatus = "left"

\* oldStatus === 'left' || oldStatus === 'kicked'
WasOutside(oldStatus) == oldStatus \in {"left", "kicked"}

\* mutant: every handled status counted as a membership
ChannelStatusOf_AlwaysJoined(newStatus) == "joined"

\* mutant: a departure puts the user back to the column default
ChannelStatusOf_NotJoinedOnLeft(newStatus) ==
    IF IsJoinedStatus(newStatus) THEN "joined" ELSE "notjoined"

\* the channelStatus handleChatMemberUpdate derives
ChannelStatusOf(newStatus) == IF IsJoinedStatus(newStatus) THEN "joined" ELSE "left"

\* mutant: the conversion fired on every update to a membership, whatever the old status
AfterLookup_FiresOnAnyJoin(oldStatus, newStatus) ==
    IF IsJoinedStatus(newStatus) THEN "getRecentClick"
    ELSE IF IsLeftStatus(newStatus) THEN "updateStatus"
    ELSE "return"

\* where a known user's update goes after the lookup
AfterLookup(oldStatus, newStatus) ==
    IF IsJoinedStatus(newStatus)
    THEN IF WasOutside(oldStatus) THEN "getRecentClick" ELSE "updateStatus"
    ELSE IF IsLeftStatus(newStatus) THEN "updateStatus"
    ELSE "return"

\* mutant: a record a call was already issued for counts as unusable
Incomplete_OrConverted(c) ==
    \/ ~Truthy(c.fbc)
    \/ ~Truthy(c.fbp)
    \/ \E k \in DOMAIN conversions : conversions[k].click = c.id

\* mutant: the test without its fbp half
Incomplete_FbcOnly(c) == ~Truthy(c.fbc)

\* !clickData || !clickData.fbc || !clickData.fbp
Incomplete(c) == ~Truthy(c.fbc) \/ ~Truthy(c.fbp)

\* mutant: processUpdate without its try/catch
processUpdate_NoCatch(inner) == inner

\* processUpdate: whatever the handlers throw is caught and logged
processUpdate(inner) == IF inner = "throw" THEN "caught" ELSE inner

\* the webhook route: 200 unless processUpdate throws
WebhookStatus(outcome) == IF outcome = "throw" THEN 500 ELSE 200

\* a delivery is answered and its slot is free again
Respond(p, inner) ==
    /\ pc' = [pc EXCEPT ![p] = "idle"]
    /\ UNCHANGED upd
    /\ lastReq' = [ep |-> "webhook", status |-> WebhookStatus(processUpdate(inner))]
    /\ lastOut' = NoOut

InFlight == {q \in Procs : pc[q] # "idle"}

\* what the conversion log can still take
Room == Len(conversions) + Cardinality(InFlight) < MaxConversions

\* mutant: the handler without its channel test
IsCampusChannel_Any(chat) == TRUE

\* chatMemberUpdate.chat.id.toString() === CAMPUS_CHANNEL_ID
IsCampusChannel(chat) == chat = CAMPUS_CHANNEL_ID

\* POST /api/telegram/webhook with a chat_member update Telegram has just created
WebhookChatMember(p, chat, user, oldStatus, newStatus) ==
    /\ pc[p] = "idle"
    /\ Room
    /\ nextUpdateId <= MaxUpdates
    /\ nextUpdateId' = nextUpdateId + 1
    /\ IF ~IsCampusChannel(chat)
       THEN /\ lastReq' = [ep |-> "webhook", status |-> WebhookStatus(processUpdate("ok"))]
            /\ lastOut' = NoOut
            /\ UNCHANGED <<pc, upd>>
       ELSE /\ pc' = [pc EXCEPT ![p] = "getBotUser"]
            /\ upd' = [upd EXCEPT ![p] = [update_id |-> nextUpdateId, chat |-> chat,
                                          user |-> user, old |-> oldStatus,
                                          new |-> newStatus]]
            /\ UNCHANGED <<lastReq, lastOut>>
    /\ UNCHANGED <<now, linkClicks, botUsers, conversions>>
    /\ UNCHANGED otherVars

\* Telegram delivers again the update it delivered last
WebhookRedeliver(p) ==
    /\ pc[p] = "idle"
    /\ upd[p] # NoUpdate
    /\ Room
    /\ pc' = [pc EXCEPT ![p] = "getBotUser"]
    /\ UNCHANGED <<now, linkClicks, botUsers, upd, conversions, nextUpdateId, lastReq, lastOut>>
    /\ UNCHANGED otherVars

\* mutant: the handler without its test of the lookup's result
UserNotFound_Never(botUser) == FALSE

\* !botUser
UserNotFound(botUser) == ~botUser.exists

\* await storage.getBotUserByTelegramId(userId) and the branch on the statuses
GetBotUser(p, storeOk) ==
    /\ pc[p] = "getBotUser"
    /\ LET botUser == getBotUserByTelegramId(botUsers, upd[p].user)
           next == IF ~storeOk \/ UserNotFound(botUser) THEN "return"
                   ELSE AfterLookup(upd[p].old, upd[p].new)
       IN  IF next = "return"
           THEN Respond(p, "ok")
           ELSE /\ pc' = [pc EXCEPT ![p] = next]
                /\ UNCHANGED <<upd, lastReq, lastOut>>
    /\ UNCHANGED <<now, linkClicks, botUsers, conversions, nextUpdateId>>
    /\ UNCHANGED otherVars

\* mutant: the two cookies in each other's place
ConversionCall_Swapped(u, c) ==
    [update_id |-> u.update_id, user |-> u.user, fbc |-> c.fbp, fbp |-> c.fbc, click |-> c.id]

\* the payload fireChannelJoinConversion posts: user_data of the located click
ConversionCall(u, c) ==
    [update_id |-> u.update_id, user |-> u.user, fbc |-> c.fbc, fbp |-> c.fbp, click |-> c.id]

\* mutant: fireChannelJoinConversion without its try/catch: what it throws ends the
\* handler in the catch of handleChatMemberUpdate
AfterConversion_Rethrow(outcome) == IF outcome = "throw" THEN "idle" ELSE "updateStatus"

\* where handleChatMemberUpdate stands when fireChannelJoinConversion has returned:
\* skipped, answered OK, answered not OK or thrown (and caught), the status write is
\* next
AfterConversion(outcome) == "updateStatus"

\* mutant: the joined status written first, the conversion call going out after it
FireChannelJoinConversion_WritesStatus(p, storeOk) ==
    /\ pc[p] = "getRecentClick"
    /\ botUsers' = updateChannelStatus(botUsers, upd[p].user, "joined", now)
    /\ LET found == getRecentClickData(linkClicks, upd[p].user, TwoMinutes, now)
       IN  IF ~storeOk \/ found = {}
           THEN /\ pc' = [pc EXCEPT ![p] = "updateStatus"]
                /\ UNCHANGED conversions
           ELSE \E i \in found :
                   IF Incomplete(linkClicks[i])
                   THEN /\ pc' = [pc EXCEPT ![p] = "updateStatus"]
                        /\ UNCHANGED conversions
                   ELSE /\ pc' = [pc EXCEPT ![p] = "awaitFetch"]
                        /\ conversions' = Append(conversions, ConversionCall(upd[p], linkClicks[i]))
    /\ UNCHANGED <<now, linkClicks, upd, nextUpdateId, lastReq, lastOut>>
    /\ UNCHANGED otherVars

\* fireChannelJoinConversion up to the fetch: await storage.getRecentClickData(id, 2),
\* the completeness test, and the call going out
FireChannelJoinConversion(p, storeOk) ==
    /\ pc[p] = "getRecentClick"
    /\ LET found == getRecentClickData(linkClicks, upd[p].user, TwoMinutes, now)
       IN  IF ~storeOk \/ found = {}
           THEN /\ pc' = [pc EXCEPT ![p] =
                            AfterConversion(IF storeOk THEN "skipped" ELSE "throw")]
                /\ UNCHANGED conversions
           ELSE \E i \in found :
                   IF Incomplete(linkClicks[i])
                   THEN /\ pc' = [pc EXCEPT ![p] = AfterConversion("skipped")]
                        /\ UNCHANGED conversions
                   ELSE /\ pc' = [pc EXCEPT ![p] = "awaitFetch"]
                        /\ conversions' = Append(conversions, ConversionCall(upd[p], linkClicks[i]))
    /\ UNCHANGED <<now, linkClicks, botUsers, upd, nextUpdateId, lastReq, lastOut>>
    /\ UNCHANGED otherVars

\* mutant: the call is posted again when the answer is not OK
AfterFetch_Retry(calls, call, outcome) ==
    IF outcome = "ok" THEN calls ELSE Append(calls, call)

\* what fireChannelJoinConversion does with the answer of the fetch: logs it
AfterFetch(calls, call, outcome) == calls

\* the fetch returns: OK, not OK, or it throws
FetchReturns(p, outcome) ==
    /\ pc[p] = "awaitFetch"
    /\ pc' = [pc EXCEPT ![p] = AfterConversion(outcome)]
    /\ conversions' = AfterFetch(conversions, conversions[Len(conversions)], outcome)
    /\ UNCHANGED <<now, linkClicks, botUsers, upd, nextUpdateId, lastReq, lastOut>>
    /\ UNCHANGED otherVars

\* await storage.updateChannelStatus(userId, channelStatus), then the answer
UpdateChannelStatus(p, storeOk) ==
    /\ pc[p] = "updateStatus"
    /\ botUsers' = IF storeOk
                   THEN updateChannelStatus(botUsers, upd[p].user,
                                            ChannelStatusOf(upd[p].new), now)
                   ELSE botUsers
    /\ Respond(p, "ok")
    /\ UNCHANGED <<now, linkClicks, conversions, nextUpdateId>>
    /\ UNCHANGED otherVars

\* -------------------------------------------------------------- other updates
UpdateKinds == {"start", "help", "stats", "text", "bad_message", "bad_chat_member", "none"}

\* sendMessage rethrows what the Telegram API call throws
sendMessage(sendOk) == IF sendOk THEN "ok" ELSE "throw"

\* sendWelcomeMessage: on any failure the fallback message is sent
sendWelcomeMessage(storeOk, sendOk) ==
    IF storeOk /\ sendMessage(sendOk) = "ok" THEN "ok" ELSE sendMessage(sendOk)

\* handleStart: on any failure the fallback message is sent
handleStart(storeOk, sendOk) ==
    IF storeOk /\ sendWelcomeMessage(storeOk, sendOk) = "ok" THEN "ok" ELSE sendMessage(sendOk)

\* handleHelp
handleHelp(sendOk) == sendMessage(sendOk)

\* handleStats: on any failure an apology is sent
handleStats(storeOk, sendOk) ==
    IF storeOk /\ sendMessage(sendOk) = "ok" THEN "ok" ELSE sendMessage(sendOk)

\* handleMessage: "throw" when an exception leaves it.  The failure of
\* updateBotUserActivity is caught; a message without from and chat gets as far as
\* message.chat.id
handleMessage(kind, storeOk, sendOk) ==
    IF kind = "bad_message" THEN "throw"
    ELSE IF kind = "start" THEN handleStart(storeOk, sendOk)
    ELSE IF kind = "help" THEN handleHelp(sendOk)
    ELSE IF kind = "stats" THEN handleStats(storeOk, sendOk)
    ELSE sendMessage(sendOk)

\* what reaches processUpdate's catch from an update that is not a well-formed
\* chat_member update: a chat_member without chat throws at chat.id
Dispatch(kind, storeOk, sendOk) ==
    IF kind \in {"start", "help", "stats", "text", "bad_message"}
    THEN handleMessage(kind, storeOk, sendOk)
    ELSE IF kind = "bad_chat_member" THEN "throw"
    ELSE "ok"

\* whether handling the update calls the Telegram sendMessage API: every command and
\* every text is answered, if only with the fallback; a message without chat throws
\* before the call
Messaged(kind) == kind \in {"start", "help", "stats", "text"}

\* bot_users after a message update: handleMessage updates the activity of the sender
\* (a failure is caught), and a plain /start inserts the sender's row or, on the
\* duplicate key, updates the activity again
BotUsersAfter(users, kind, from, storeOk, t) ==
    IF ~storeOk \/ kind \notin {"start", "help", "stats", "text"} THEN users
    ELSE LET active == updateBotUserActivity(users, from, Undef, t)
         IN  IF kind # "start" THEN active
             ELSE IF DuplicateKey(active, from)
             THEN updateBotUserActivity(active, from, Null, t)
             ELSE createBotUser(active, [telegramId |-> from, source |-> "Direct",
                                         fbclid |-> Null], t)

\* POST /api/telegram/webhook with a message update, a malformed update or an update
\* of a kind the bot does not handle
WebhookOther(kind, from, storeOk, sendOk) ==
    /\ botUsers' = BotUsersAfter(botUsers, kind, from, storeOk, now)
    /\ lastReq' = [ep |-> "webhook", status |-> WebhookStatus(processUpdate(Dispatch(kind, storeOk, sendOk)))]
    /\ lastOut' = [NoOut EXCEPT !.messaged = Messaged(kind)]
    /\ UNCHANGED <<now, linkClicks, pc, upd, conversions, nextUpdateId>>
    /\ UNCHANGED otherVars

\* the updates by the fields they carry
UpdateShapes == [message : BOOLEAN, chat_member : BOOLEAN]

\* mutant: the dispatcher with its message branch only
Route_MessageOnly(update) == IF update.message THEN "message" ELSE "none"

\* processUpdate: if (update.message) ... else if (update.chat_member) ...
Route(update) ==
    IF update.message THEN "message"
    ELSE IF update.chat_member THEN "chat_member"
    ELSE "none"

\* POST /api/telegram/webhook with an update of the given shape: kind and from
\* describe its message, user and the statuses its chat_member
WebhookUpdate(p, update, kind, from, user, oldStatus, newStatus) ==
    IF Route(update) = "message" THEN WebhookOther(kind, from, TRUE, TRUE)
    ELSE IF Route(update) = "chat_member"
    THEN WebhookChatMember(p, CAMPUS_CHANNEL_ID, user, oldStatus, newStatus)
    ELSE WebhookOther("none", from, TRUE, TRUE)

\* ------------------------------------------------- /start, statement by statement
\* the parameters of the /start commands: /start facebookads and
\* /start referral_fbclid=F
StartParameters == {[source |-> "facebookads", fbclid |-> Null],
                    [source |-> "referral", fbclid |-> "F"]}

\* a message /start <parameter> arrives: handleMessage takes it up
StartReceive(s, user, parameter) ==
    /\ starts[s].pc = "idle"
    /\ starts' = [starts EXCEPT ![s] = [pc |-> "activity", user |-> user,
                                        source |-> parameter.source,
                                        fbclid |-> parameter.fbclid]]
    /\ UNCHANGED <<now, linkClicks, botUsers, pc, upd, conversions, nextUpdateId, lastReq,
                   lastOut, welcomeMessages, admin>>

\* handleMessage: await storage.updateBotUserActivity(user.id.toString())
StartActivity(s) ==
    /\ starts[s].pc = "activity"
    /\ botUsers' = updateBotUserActivity(botUsers, starts[s].user, Undef, now)
    /\ starts' = [starts EXCEPT ![s].pc = "create"]
    /\ UNCHANGED <<now, linkClicks, pc, upd, conversions, nextUpdateId, lastReq,
                   lastOut, welcomeMessages, admin>>

\* handleStart: await storage.createBotUser({telegramId, source, fbclid, ...}); the
\* duplicate-key error leads to the activity update, any other error to the fallback
\* message
StartCreate(s, storeOk) ==
    /\ starts[s].pc = "create"
    /\ IF ~storeOk
       THEN /\ starts' = [starts EXCEPT ![s] = NoStart]
            /\ UNCHANGED botUsers
       ELSE IF DuplicateKey(botUsers, starts[s].user)
       THEN /\ starts' = [starts EXCEPT ![s].pc = "duplicate"]
            /\ UNCHANGED botUsers
       ELSE /\ starts' = [starts EXCEPT ![s] = NoStart]
            /\ botUsers' = createBotUser(botUsers, [telegramId |-> starts[s].user,
                                                    source |-> starts[s].source,
                                                    fbclid |-> starts[s].fbclid], now)
    /\ UNCHANGED <<now, linkClicks, pc, upd, conversions, nextUpdateId, lastReq,
                   lastOut, welcomeMessages, admin>>

\* handleStart, in the catch of the insert:
\* await storage.updateBotUserActivity(user.id.toString(), fbclid)
StartDuplicate(s) ==
    /\ starts[s].pc = "duplicate"
    /\ botUsers' = updateBotUserActivity(botUsers, starts[s].user, starts[s].fbclid, now)
    /\ starts' = [starts EXCEPT ![s] = NoStart]
    /\ UNCHANGED <<now, linkClicks, pc, upd, conversions, nextUpdateId, lastReq,
                   lastOut, welcomeMessages, admin>>

\* ----------------------------------------- upsertWelcomeMessage, by statement
\* the ids the store gives to inserted rows, in this order
NewMessageIds == <<"n1", "n2">>

\* what the admin saves: a new link for the source that has a row, and a message for
\* a source that has none
AdminSources == {"default", "promo"}
AdminLinks == {"https://t.me/a", "https://t.me/c"}

\* the rows the SELECT ... WHERE source = messageData.source finds
RowsOfSource(rows, source) == {m \in rows : m.source = source}

\* the id of the next inserted row
NextMessageId(rows) ==
    NewMessageIds[Cardinality({m \in rows : \E i \in DOMAIN NewMessageIds :
                                                m.id = NewMessageIds[i]}) + 1]

\* what the insert can still take
RoomForMessage(rows) ==
    Cardinality({m \in rows : \E i \in DOMAIN NewMessageIds : m.id = NewMessageIds[i]})
        < Len(NewMessageIds)

\* PUT /api/welcome-message: upsertWelcomeMessage runs its SELECT ... LIMIT 1
UpsertSelect(a, source, buttonLink) ==
    /\ admin[a].pc = "idle"
    /\ \E existing \in IF RowsOfSource(welcomeMessages, source) = {} THEN {Null}
                       ELSE {m.id : m \in RowsOfSource(welcomeMessages, source)} :
          admin' = [admin EXCEPT ![a] = [pc |-> "write", source |-> source,
                                         buttonLink |-> buttonLink,
                                         existing |-> existing]]
    /\ UNCHANGED <<now, linkClicks, botUsers, pc, upd, conversions, nextUpdateId, lastReq,
                   lastOut, welcomeMessages, starts>>

\* upsertWelcomeMessage goes on with what the SELECT found: UPDATE ... WHERE id, or
\* INSERT
UpsertWrite(a) ==
    /\ admin[a].pc = "write"
    /\ IF admin[a].existing # Null
       THEN welcomeMessages' =
                {IF m.id = admin[a].existing
                 THEN [m EXCEPT !.source = admin[a].source,
                                !.buttonLink = admin[a].buttonLink]
                 ELSE m : m \in welcomeMessages}
       ELSE /\ RoomForMessage(welcomeMessages)
            /\ welcomeMessages' = welcomeMessages \cup
                    {[id |-> NextMessageId(welcomeMessages), source |-> admin[a].source,
                      buttonLink |-> admin[a].buttonLink]}
    /\ admin' = [admin EXCEPT ![a] = NoAdmin]
    /\ UNCHANGED <<now, linkClicks, botUsers, pc, upd, conversions, nextUpdateId, lastReq,
                   lastOut, starts>>

\* ------------------------------------------------------------ specifications
\* the steps of a chat_member delivery after its receipt
WebhookSteps ==
    \/ \E p \in Procs : WebhookRedeliver(p)
    \/ \E p \in Procs, storeOk \in BOOLEAN : GetBotUser(p, storeOk)
    \/ \E p \in Procs, storeOk \in BOOLEAN : FireChannelJoinConversion(p, storeOk)
    \/ \E p \in Procs, outcome \in {"ok", "not_ok", "throw"} : FetchReturns(p, outcome)
    \/ \E p \in Procs, storeOk \in BOOLEAN : UpdateChannelStatus(p, storeOk)

\* the visits of the pipeline: u1 clicks with every cookie pair, u2 with a complete one
PipelineClicks == {<<"u1", ck>> : ck \in RawCookiePairs} \cup {<<"u2", <<"A", "B">>>>}

\* the membership changes of the pipeline: a join and a leave
PipelineChanges == {<<"left", "member">>, <<"member", "left">>}

\* clicks, cookie completions and membership changes of the configured channel
Next ==
    \/ Tick
    \/ \E v \in PipelineClicks : ClickVisit("m1", v[1], Undef, v[2][1], v[2][2], FALSE, "none")
    \/ \E ck \in {<<"A", "B">>, <<"", "">>} : UpdateClickData("m1", "u1", Undef, ck[1], ck[2], TRUE)
    \/ \E p \in Procs, user \in Users, ch \in PipelineChanges :
            WebhookChatMember(p, CAMPUS_CHANNEL_ID, user, ch[1], ch[2])
    \/ WebhookSteps

Spec == Init /\ [][Next]_vars

\* every update shape the webhook can receive, with store and network faults, at
\* one instant, over complete clicks of u1
NextMembership ==
    \/ ClickVisit("m1", "u1", Undef, "A", "B", FALSE, "none")
    \/ \E p \in Procs, chat \in ChatIds, user \in Users, oldStatus \in MemberStatuses,
          newStatus \in MemberStatuses :
            WebhookChatMember(p, chat, user, oldStatus, newStatus)
    \/ WebhookSteps
    \/ \E kind \in UpdateKinds, from \in Users, storeOk \in BOOLEAN, sendOk \in BOOLEAN :
            WebhookOther(kind, from, storeOk, sendOk)

SpecMembership == Init /\ [][NextMembership]_vars

\* the click and cookie-completion endpoints alone, over all their inputs
NextStore ==
    \/ Tick
    \/ \E m \in MessageIds, u \in Users, direct \in BOOLEAN, fault \in {"none", "read", "write"} :
            ClickVisit(m, u, Undef, Undef, Undef, direct, fault)
    \/ \E m \in MessageIds \cup {Undef}, u \in Users \cup {Undef},
          ck \in {<<"A", "B">>, <<"", "">>}, storeOk \in BOOLEAN :
            UpdateClickData(m, u, Undef, ck[1], ck[2], storeOk)

SpecStore == Init /\ [][NextStore]_vars

\* the tracking page of one user: visits with and without an attribution id, each
\* followed or not by the completions the page posts, with the cookies of the moment
CookiePairs == {<<"A", "B">>, <<"C", "D">>, <<"", "">>}

NextRoundTrip ==
    \/ Tick
    \/ \E m \in {"m1", "m2"}, fbclid \in {Undef, "F"} :
            ClickVisit(m, "u1", fbclid, Undef, Undef, FALSE, "none")
    \/ \E m \in {"m1", "m2"}, fbclid \in {Undef, "F", ""}, ck \in CookiePairs :
            UpdateClickData(m, "u1", fbclid, ck[1], ck[2], TRUE)

SpecRoundTrip == Init /\ [][NextRoundTrip]_vars

\* one user with complete clicks whose membership changes as Telegram reports them:
\* the old status of an update is the new status of the one before it
NextRejoin ==
    \/ Tick
    \/ ClickVisit("m1", "u1", Undef, "A", "B", FALSE, "none")
    \/ \E p \in Procs, ch \in PipelineChanges :
            /\ upd[p].new = ch[1]
            /\ WebhookChatMember(p, CAMPUS_CHANNEL_ID, "u1", ch[1], ch[2])
    \/ WebhookSteps

SpecRejoin == Init /\ [][NextRejoin]_vars

\* the tracking link alone: visits with and without an attribution id, answered by
\* the tracking page or by the direct redirect
NextRedirect ==
    \/ Tick
    \/ \E m \in MessageIds, fbclid \in {Undef, "F"}, direct \in BOOLEAN :
            ClickVisit(m, "u1", fbclid, Undef, Undef, direct, "none")

SpecRedirect == Init /\ [][NextRedirect]_vars

\* one user visiting the links of two messages, the page of each posting its cookies
\* or none, and the user joining the channel, store and network answering
NextRecent ==
    \/ Tick
    \/ \E m \in {"m1", "m2"} : ClickVisit(m, "u1", Undef, Undef, Undef, FALSE, "none")
    \/ \E m \in {"m1", "m2"}, ck \in {<<"A", "B">>, <<"", "">>} :
            UpdateClickData(m, "u1", Undef, ck[1], ck[2], TRUE)
    \/ \E p \in Procs : WebhookChatMember(p, CAMPUS_CHANNEL_ID, "u1", "left", "member")
    \/ \E p \in Procs : GetBotUser(p, TRUE)
    \/ \E p \in Procs : FireChannelJoinConversion(p, TRUE)
    \/ \E p \in Procs : FetchReturns(p, "ok")
    \/ \E p \in Procs : UpdateChannelStatus(p, TRUE)

SpecRecent == Init /\ [][NextRecent]_vars

\* /start messages of a registered and of an unregistered user, two of them in flight
\* at a time
NextStart ==
    \/ Tick
    \/ \E s \in StartSlots, user \in Users, parameter \in StartParameters :
            StartReceive(s, user, parameter)
    \/ \E s \in StartSlots : StartActivity(s)
    \/ \E s \in StartSlots, storeOk \in BOOLEAN : StartCreate(s, storeOk)
    \/ \E s \in StartSlots : StartDuplicate(s)

SpecStart == Init /\ [][NextStart]_vars

\* everything that touches a registered user's data around a membership change: the
\* user's clicks and cookie completions, messages and /start commands, joins and leaves
NextFrame ==
    \/ Tick
    \/ ClickVisit("m1", "u1", Undef, Undef, Undef, FALSE, "none")
    \/ UpdateClickData("m1", "u1", Undef, "A", "B", TRUE)
    \/ \E p \in Procs, ch \in PipelineChanges :
            WebhookChatMember(p, CAMPUS_CHANNEL_ID, "u1", ch[1], ch[2])
    \/ \E p \in Procs : GetBotUser(p, TRUE)
    \/ \E p \in Procs : FireChannelJoinConversion(p, TRUE)
    \/ \E p \in Procs : FetchReturns(p, "ok")
    \/ \E p \in Procs : UpdateChannelStatus(p, TRUE)
    \/ \E s \in {"s1"} : StartReceive(s, "u1", [source |-> "referral", fbclid |-> "F"])
    \/ \E s \in {"s1"} : StartActivity(s)
    \/ \E s \in {"s1"} : StartCreate(s, TRUE)
    \/ \E s \in {"s1"} : StartDuplicate(s)

SpecFrame == Init /\ [][NextFrame]_vars

\* the webhook receiving updates of every shape, at one instant, store and network
\* answering, over complete clicks of u1
NextDispatch ==
    \/ ClickVisit("m1", "u1", Undef, "A", "B", FALSE, "none")
    \/ \E p \in Procs, update \in UpdateShapes, kind \in {"start", "text"}, from \in Users,
          ch \in PipelineChanges :
            WebhookUpdate(p, update, kind, from, "u1", ch[1], ch[2])
    \/ \E p \in Procs : GetBotUser(p, TRUE)
    \/ \E p \in Procs : FireChannelJoinConversion(p, TRUE)
    \/ \E p \in Procs : FetchReturns(p, "ok")
    \/ \E p \in Procs : UpdateChannelStatus(p, TRUE)

SpecDispatch == Init /\ [][NextDispatch]_vars

\* the admin saving welcome messages, two requests in flight at a time, and users
\* following the links of the rows
NextUpsert ==
    \/ \E a \in AdminSlots, source \in AdminSources, buttonLink \in AdminLinks :
            UpsertSelect(a, source, buttonLink)
    \/ \E a \in AdminSlots : UpsertWrite(a)
    \/ \E m \in {"m1", "n1", "n2"} : ClickVisit(m, "u1", Undef, Undef, Undef, TRUE, "none")

SpecUpsert == Init /\ [][NextUpsert]_vars

\* ------------------------------------------------------------------- claims
\* the rows of telegramUserId clicked within the last two minutes
FreshClicks(telegramUserId) ==
    {i \in DOMAIN linkClicks :
        /\ linkClicks[i].telegramUserId = telegramUserId
        /\ linkClicks[i].clickedAt >= now - TwoMinutes}

\* those of them no other is more recent than
Located(telegramUserId) ==
    {i \in FreshClicks(telegramUserId) :
        \A j \in FreshClicks(telegramUserId) : linkClicks[j].clickedAt <= linkClicks[i].clickedAt}

HasBothCookies(c) == c.fbc \notin {Null, Undef, ""} /\ c.fbp \notin {Null, Undef, ""}

\* C1: for one qualifying join, that is one chat_member update, at most one conversion
\* call is issued, however often the update is delivered.
C1_AtMostOneCallPerJoin ==
    \A i, j \in DOMAIN conversions :
        conversions[i].update_id = conversions[j].update_id => i = j

\* C2: for the configured channel and a user the store knows, the lookup step hands
\* over to the conversion correlator exactly when the old status is left or kicked and
\* the new status is member, administrator or creator; nothing else invokes it, and an
\* update whose new status is left or kicked never does.
C2_InvokesIffJoin ==
    [][\A p \in Procs :
          /\ (GetBotUser(p, TRUE) /\ botUsers[upd[p].user].exists)
                => (pc'[p] = "getRecentClick"
                      <=> /\ upd[p].old \in {"left", "kicked"}
                          /\ upd[p].new \in {"member", "administrator", "creator"})
          /\ (pc[p] # "getRecentClick" /\ pc'[p] = "getRecentClick")
                => /\ pc[p] = "getBotUser"
                   /\ upd[p].chat = CAMPUS_CHANNEL_ID
                   /\ botUsers[upd[p].user].exists
                   /\ upd[p].new \notin {"left", "kicked"}]_vars

C2_Witness ==
    \E p \in Procs :
        /\ pc[p] = "getRecentClick"
        /\ upd[p].old = "kicked"
        /\ upd[p].new = "creator"
        /\ botUsers[upd[p].user].exists

\* C3: a conversion call goes out only from the lookup step of a delivery whose user
\* has a click record of the last two minutes, the most recent of which has a non-empty
\* fbc and a non-empty fbp; a click at 0 and a join at 3 min issue none.
C3_NoCallWithoutFreshCompleteClick ==
    [][conversions' # conversions =>
          \E p \in Procs :
              /\ pc[p] = "getRecentClick"
              /\ pc'[p] = "awaitFetch"
              /\ \E i \in Located(upd[p].user) : HasBothCookies(linkClicks[i])]_vars

C3_Witness ==
    \E p \in Procs :
        /\ now = 6
        /\ Len(linkClicks) = 1
        /\ linkClicks[1].telegramUserId = "u1"
        /\ linkClicks[1].clickedAt = 0
        /\ HasBothCookies(linkClicks[1])
        /\ pc[p] = "updateStatus"
        /\ upd[p].user = "u1"
        /\ upd[p].old = "left"
        /\ upd[p].new = "member"
        /\ conversions = << >>

\* C4: when the record the lookup locates is of the last two minutes and has both
\* cookies, the invocation issues exactly one call, and the answer of the fetch (OK,
\* not OK, thrown) issues none: no step ever issues more than one.
C4_ExactlyOneCall ==
    [][/\ \A p \in Procs :
            /\ (/\ FireChannelJoinConversion(p, TRUE)
                /\ Located(upd[p].user) # {}
                /\ \A i \in Located(upd[p].user) : HasBothCookies(linkClicks[i]))
                  => /\ Len(conversions') = Len(conversions) + 1
                     /\ conversions'[Len(conversions')].update_id = upd[p].update_id
            /\ (pc[p] = "awaitFetch" /\ pc'[p] # "awaitFetch") => conversions' = conversions
       /\ Len(conversions') <= Len(conversions) + 1
       /\ SubSeq(conversions', 1, Len(conversions)) = conversions]_vars

C4_Witness ==
    \E p \in Procs :
        /\ pc[p] = "updateStatus"
        /\ Len(conversions) = 1
        /\ conversions[1].update_id = upd[p].update_id

ScenarioClick(fbc, fbp) ==
    [id |-> 1, welcomeMessageId |-> "m1", telegramUserId |-> "u1", fbclid |-> Null,
     fbc |-> fbc, fbp |-> fbp, clickedAt |-> 0]

\* C5: a click at 0 without cookies, a completion at 30 s with A and B and a join of
\* the known user at 90 s issue a conversion call whose tokens are fbc = A and fbp = B;
\* the tokens of every call are those stored on the click record it located.
C5_ScenarioTokens ==
    [][/\ (now = 0 /\ linkClicks = << >> /\ ClickVisit("m1", "u1", Undef, Undef, Undef, FALSE, "none"))
            => linkClicks' = <<ScenarioClick(Null, Null)>>
       /\ (/\ now = 1
           /\ linkClicks = <<ScenarioClick(Null, Null)>>
           /\ UpdateClickData("m1", "u1", Undef, "A", "B", TRUE))
            => linkClicks' = <<ScenarioClick("A", "B")>>
       /\ \A p \in Procs :
            (/\ now = 3
             /\ linkClicks = <<ScenarioClick("A", "B")>>
             /\ upd[p].user = "u1"
             /\ FireChannelJoinConversion(p, TRUE))
              => conversions' =
                    Append(conversions,
                           [update_id |-> upd[p].update_id, user |-> "u1", fbc |-> "A",
                            fbp |-> "B", click |-> 1])
       /\ conversions' # conversions
            => LET call == conversions'[Len(conversions')]
               IN  /\ call.click \in DOMAIN linkClicks
                   /\ linkClicks[call.click].telegramUserId = call.user
                   /\ call.fbc = linkClicks[call.click].fbc
                   /\ call.fbp = linkClicks[call.click].fbp]_vars

C5_Witness ==
    /\ now = 3
    /\ linkClicks = <<ScenarioClick("A", "B")>>
    /\ Len(conversions) = 1
    /\ conversions[1].user = "u1"
    /\ conversions[1].fbc = "A"
    /\ conversions[1].fbp = "B"
    /\ conversions[1].click = 1

\* the ids of the welcome messages that carry a button link
LinkedMessageIds == {m.id : m \in {w \in welcomeMessages : w.buttonLink \notin {Null, ""}}}

\* C6: a cookie completion for (messageId, userId) sets fbc and fbp on every click
\* record of that message and user clicked at or after now minus five minutes, and
\* changes no other record.
C6_CompletionUpdatesRecentOnly ==
    [][\A m \in MessageIds, u \in Users, ck \in {<<"A", "B">>, <<"", "">>} :
          UpdateClickData(m, u, Undef, ck[1], ck[2], TRUE)
            => /\ DOMAIN linkClicks' = DOMAIN linkClicks
               /\ \A i \in DOMAIN linkClicks :
                    IF /\ linkClicks[i].welcomeMessageId = m
                       /\ linkClicks[i].telegramUserId = u
                       /\ linkClicks[i].clickedAt >= now - FiveMinutes
                    THEN linkClicks'[i] =
                            [linkClicks[i] EXCEPT !.fbc = IF ck[1] = "" THEN Null ELSE ck[1],
                                                  !.fbp = IF ck[2] = "" THEN Null ELSE ck[2]]
                    ELSE linkClicks'[i] = linkClicks[i]]_vars

C6_Witness ==
    /\ lastReq = [ep |-> "cookies", status |-> 200]
    /\ \E i, j \in DOMAIN linkClicks :
          /\ linkClicks[i].welcomeMessageId = linkClicks[j].welcomeMessageId
          /\ linkClicks[i].telegramUserId = linkClicks[j].telegramUserId
          /\ linkClicks[i].clickedAt < now - FiveMinutes
          /\ linkClicks[i].fbc = Null
          /\ linkClicks[i].fbp = Null
          /\ linkClicks[j].clickedAt >= now - FiveMinutes
          /\ linkClicks[j].fbc = "A"
          /\ linkClicks[j].fbp = "B"

\* C7: a cookie completion for a (message, user) pair without a click record of the
\* last five minutes answers 200, creates no record and changes none.
C7_CompletionWithoutRecentRecordIsNoOp ==
    [][\A m \in MessageIds, u \in Users, ck \in {<<"A", "B">>, <<"", "">>} :
          (/\ UpdateClickData(m, u, Undef, ck[1], ck[2], TRUE)
           /\ ~ \E i \in DOMAIN linkClicks :
                  /\ linkClicks[i].welcomeMessageId = m
                  /\ linkClicks[i].telegramUserId = u
                  /\ linkClicks[i].clickedAt >= now - FiveMinutes)
            => /\ linkClicks' = linkClicks
               /\ lastReq'.status = 200]_vars

C7_Witness ==
    /\ lastReq = [ep |-> "cookies", status |-> 200]
    /\ linkClicks = << >>
    /\ now > 0

\* C8: a visit to the click endpoint for a message with a button link, the store
\* working, is answered 302 (direct) or 200 (page), and in both cases appends exactly
\* one record, of that message and user with clickedAt = now, and leaves every earlier
\* record as it was.
C8_VisitInsertsOneRecord ==
    [][\A m \in MessageIds, u \in Users, direct \in BOOLEAN :
          ClickVisit(m, u, Undef, Undef, Undef, direct, "none")
            => /\ m \in LinkedMessageIds <=> lastReq'.status \in {200, 302}
               /\ lastReq'.status \in {200, 302}
                    => /\ lastReq'.status = IF direct THEN 302 ELSE 200
                       /\ Len(linkClicks') = Len(linkClicks) + 1
                       /\ \A i \in DOMAIN linkClicks : linkClicks'[i] = linkClicks[i]
                       /\ linkClicks'[Len(linkClicks')].welcomeMessageId = m
                       /\ linkClicks'[Len(linkClicks')].telegramUserId = u
                       /\ linkClicks'[Len(linkClicks')].clickedAt = now]_vars

C8_Witness ==
    /\ lastReq = [ep |-> "click", status |-> 302]
    /\ Len(linkClicks) = 2
    /\ linkClicks[1].welcomeMessageId = linkClicks[2].welcomeMessageId
    /\ linkClicks[1].telegramUserId = linkClicks[2].telegramUserId
    /\ linkClicks[1].clickedAt < linkClicks[2].clickedAt
    /\ linkClicks[2].clickedAt = now

\* C9: a visit whose messageId names no welcome message, or one without a button
\* link, is answered 404 and inserts no click record, whether or not the insert would
\* have worked.
C9_NotFoundBeforeRecording ==
    [][\A m \in MessageIds \ LinkedMessageIds, u \in Users, direct \in BOOLEAN,
          fault \in {"none", "write"} :
          ClickVisit(m, u, Undef, Undef, Undef, direct, fault)
            => /\ lastReq'.status = 404
               /\ linkClicks' = linkClicks]_vars

C9_Witness ==
    /\ lastReq = [ep |-> "click", status |-> 404]
    /\ Len(linkClicks) = 1

\* C10: the webhook endpoint answers every update with 200: a malformed update, a
\* failed store call, a failed message send and a failed conversion call included.
C10_WebhookAlways200 == lastReq.ep = "webhook" => lastReq.status = 200

C10_Witness ==
    /\ lastReq = [ep |-> "webhook", status |-> 200]
    /\ \A p \in Procs : pc[p] = "idle" /\ upd[p].user = "u1" /\ upd[p].new = "member"
    /\ Len(conversions) = 1
    /\ botUsers["u1"].campusFreeChannel = "notjoined"

\* C11: a chat_member update is taken into handling only when its chat is the
\* configured channel; the receipt of one of any other chat is answered at once: no
\* store call is started, no bot user's channel status or channelJoinedAt changes, no
\* click record changes and no conversion call is made.
C11_OtherChannelIgnored ==
    [][nextUpdateId' # nextUpdateId =>
          \/ \E p \in Procs :
                /\ pc[p] = "idle"
                /\ pc'[p] = "getBotUser"
                /\ upd'[p].update_id = nextUpdateId
                /\ upd'[p].chat = CAMPUS_CHANNEL_ID
          \/ /\ pc' = pc
             /\ upd' = upd
             /\ botUsers' = botUsers
             /\ linkClicks' = linkClicks
             /\ conversions' = conversions
             /\ lastReq' = [ep |-> "webhook", status |-> 200]]_vars

C11_Witness ==
    /\ nextUpdateId = 2
    /\ \A p \in Procs : pc[p] = "idle" /\ upd[p] = NoUpdate
    /\ lastReq = [ep |-> "webhook", status |-> 200]
    /\ linkClicks # << >>
    /\ botUsers["u1"] = NewBotUser
    /\ conversions = << >>

\* C12: for the configured channel, the lookup step of an update whose user has no
\* bot-user row ends the delivery: no row is created, no status is written and no
\* conversion call is made, whatever the old and new statuses are; no step of a
\* chat_member delivery ever creates a row, and no call goes out for a user without one.
C12_UnknownUserDropped ==
    [][/\ \A p \in Procs, storeOk \in BOOLEAN :
            (GetBotUser(p, storeOk) /\ ~botUsers[upd[p].user].exists)
              => /\ pc'[p] = "idle"
                 /\ botUsers' = botUsers
                 /\ conversions' = conversions
                 /\ lastReq' = [ep |-> "webhook", status |-> 200]
       /\ \A u \in Users :
            (~botUsers[u].exists /\ botUsers'[u] # botUsers[u]) => pc' = pc
       /\ conversions' # conversions
            => botUsers[conversions'[Len(conversions')].user].exists]_vars

C12_Witness ==
    \E p \in Procs :
        /\ pc[p] = "idle"
        /\ upd[p].chat = CAMPUS_CHANNEL_ID
        /\ upd[p].user = "u2"
        /\ upd[p].old = "left"
        /\ upd[p].new = "member"
        /\ botUsers["u2"] = NoBotUser
        /\ lastReq = [ep |-> "webhook", status |-> 200]
        /\ conversions = << >>

\* C13: whatever becomes of the conversion (skipped, answered OK, answered not OK,
\* thrown), the handler goes on to the status write and the conversion steps leave
\* bot_users alone; the status write of a detected join persists joined.
C13_ConversionOutcomeKeepsMembership ==
    [][\A p \in Procs :
          /\ (pc[p] = "getRecentClick" /\ pc'[p] # pc[p])
                => /\ pc'[p] \in {"awaitFetch", "updateStatus"}
                   /\ botUsers' = botUsers
          /\ (pc[p] = "awaitFetch" /\ pc'[p] # pc[p])
                => /\ pc'[p] = "updateStatus"
                   /\ botUsers' = botUsers
          /\ (/\ UpdateChannelStatus(p, TRUE)
              /\ botUsers[upd[p].user].exists
              /\ upd[p].old \in {"left", "kicked"}
              /\ upd[p].new \in {"member", "administrator", "creator"})
                => botUsers'[upd[p].user].campusFreeChannel = "joined"]_vars

C13_Witness ==
    \E p \in Procs :
        /\ pc[p] = "idle"
        /\ upd[p].user = "u1"
        /\ upd[p].new = "member"
        /\ Len(conversions) = 1
        /\ conversions[1].update_id = upd[p].update_id
        /\ botUsers["u1"].campusFreeChannel = "joined"
        /\ botUsers["u1"].channelJoinedAt = now

\* C14: channelJoinedAt is null while the status is notjoined; it changes only in the
\* status write of an update whose new status is member, administrator or creator,
\* which sets it to now; the status write of an update to left or kicked persists left
\* and leaves channelJoinedAt as it was.
C14_JoinedAtSetOnlyByJoin ==
    /\ [](\A u \in Users :
            botUsers[u].campusFreeChannel = "notjoined" => botUsers[u].channelJoinedAt = NoTime)
    /\ [][/\ \A u \in Users :
               botUsers'[u].channelJoinedAt # botUsers[u].channelJoinedAt
                 => /\ \E p \in Procs :
                         /\ pc[p] = "updateStatus"
                         /\ upd[p].user = u
                         /\ upd[p].new \in {"member", "administrator", "creator"}
                    /\ botUsers'[u].campusFreeChannel = "joined"
                    /\ botUsers'[u].channelJoinedAt = now
          /\ \A p \in Procs :
               (/\ UpdateChannelStatus(p, TRUE)
                /\ botUsers[upd[p].user].exists
                /\ upd[p].new \in {"left", "kicked"})
                 => /\ botUsers'[upd[p].user].campusFreeChannel = "left"
                    /\ botUsers'[upd[p].user].channelJoinedAt
                          = botUsers[upd[p].user].channelJoinedAt]_vars

C14_Witness ==
    \E p \in Procs :
        /\ pc[p] = "idle"
        /\ upd[p].user = "u1"
        /\ upd[p].new = "left"
        /\ now > 0
        /\ botUsers["u1"].campusFreeChannel = "left"
        /\ botUsers["u1"].channelJoinedAt = 0

\* C15: a click that carries an attribution id is stored with it and with clickedAt =
\* now; a completion with non-empty cookies for its message and user, made while the
\* record is recent, leaves the record with its attribution id, both cookies set to the
\* values sent and clickedAt as at creation; no step changes clickedAt of any record.
C15_RoundTrip ==
    [][/\ \A i \in DOMAIN linkClicks :
            /\ i \in DOMAIN linkClicks'
            /\ linkClicks'[i].clickedAt = linkClicks[i].clickedAt
       /\ ClickVisit("m1", "u1", "F", Undef, Undef, FALSE, "none")
            => linkClicks'[Len(linkClicks')] =
                  [id |-> Len(linkClicks) + 1, welcomeMessageId |-> "m1",
                   telegramUserId |-> "u1", fbclid |-> "F", fbc |-> Null, fbp |-> Null,
                   clickedAt |-> now]
       /\ \A m \in {"m1", "m2"}, fbclid \in {Undef, "F", ""}, ck \in {<<"A", "B">>, <<"C", "D">>} :
            UpdateClickData(m, "u1", fbclid, ck[1], ck[2], TRUE)
              => \A i \in DOMAIN linkClicks :
                    (/\ linkClicks[i].welcomeMessageId = m
                     /\ linkClicks[i].fbclid = "F"
                     /\ linkClicks[i].clickedAt >= now - FiveMinutes)
                      => linkClicks'[i] = [linkClicks[i] EXCEPT !.fbc = ck[1], !.fbp = ck[2]]]_vars

C15_Witness ==
    /\ now = 0
    /\ lastReq = [ep |-> "cookies", status |-> 200]
    /\ linkClicks = << [id |-> 1, welcomeMessageId |-> "m1", telegramUserId |-> "u1",
                        fbclid |-> "F", fbc |-> "A", fbp |-> "B", clickedAt |-> 0] >>

\* C16 as stated: once a completion has set a cookie of a click record, no later step
\* changes the record's cookie fields (the visits of this specification store none).
C16_WriteOnce ==
    [][\A i \in DOMAIN linkClicks :
          (linkClicks[i].fbc # Null \/ linkClicks[i].fbp # Null)
            => /\ linkClicks'[i].fbc = linkClicks[i].fbc
               /\ linkClicks'[i].fbp = linkClicks[i].fbp]_vars

\* C16 amended: the cookie fields of a click record change only in a cookie completion
\* made while the record is at most five minutes old, and every completion for the
\* record's message and user made in that time sets them again, to the values it
\* carries, whatever an earlier completion stored; past five minutes the record is
\* read-only.
C16_OverwrittenWhileRecentOnly ==
    [][/\ \A i \in DOMAIN linkClicks :
            (linkClicks'[i].fbc # linkClicks[i].fbc \/ linkClicks'[i].fbp # linkClicks[i].fbp)
              => /\ linkClicks[i].clickedAt >= now - FiveMinutes
                 /\ lastReq' = [ep |-> "cookies", status |-> 200]
       /\ \A m \in {"m1", "m2"}, ck \in CookiePairs :
            UpdateClickData(m, "u1", Undef, ck[1], ck[2], TRUE)
              => \A i \in DOMAIN linkClicks :
                    (/\ linkClicks[i].welcomeMessageId = m
                     /\ linkClicks[i].clickedAt >= now - FiveMinutes
                     /\ linkClicks[i].fbc # Null)
                      => /\ linkClicks'[i].fbc = (IF ck[1] = "" THEN Null ELSE ck[1])
                         /\ linkClicks'[i].fbp = (IF ck[2] = "" THEN Null ELSE ck[2])]_vars

C16_Witness ==
    /\ now > FiveMinutes
    /\ lastReq = [ep |-> "cookies", status |-> 200]
    /\ Len(linkClicks) = 2
    /\ linkClicks[1].welcomeMessageId = linkClicks[2].welcomeMessageId
    /\ linkClicks[1].clickedAt < now - FiveMinutes
    /\ linkClicks[1].fbc = "A"
    /\ linkClicks[1].fbp = "B"
    /\ linkClicks[2].clickedAt = now
    /\ linkClicks[2].fbc = "C"
    /\ linkClicks[2].fbp = "D"

\* C17 as stated: the cookie-completion endpoint answers every request with success.
C17_AlwaysSuccess == lastReq.ep = "cookies" => lastReq.status = 200

\* C17 amended: the cookie-completion endpoint answers 200 when messageId and userId
\* are present and the store call does not fail, whether or not a record matched; it
\* answers 400 when either is missing and 500 when the store call fails, and then no
\* record changes.
C17_SuccessUnlessInvalidOrStoreFault ==
    [][lastReq'.ep = "cookies" =>
        \A m \in MessageIds \cup {Undef}, u \in Users \cup {Undef},
           ck \in {<<"A", "B">>, <<"", "">>}, storeOk \in BOOLEAN :
            UpdateClickData(m, u, Undef, ck[1], ck[2], storeOk)
              => /\ lastReq'.status = (IF m = Undef \/ u = Undef THEN 400
                                       ELSE IF storeOk THEN 200 ELSE 500)
                 /\ lastReq'.status # 200 => linkClicks' = linkClicks]_vars

C17_Witness ==
    /\ lastReq = [ep |-> "cookies", status |-> 400]
    /\ Len(linkClicks) = 1
    /\ linkClicks[1].clickedAt = now
    /\ linkClicks[1].fbc = Null
    /\ linkClicks[1].fbp = Null

\* C18 as stated: for a known user, an update whose new status is kicked, restricted,
\* administrator, creator or member reaches the status write, and the write persists
\* joined.
C18_ActiveStatusesJoined ==
    [][\A p \in Procs :
          LET active == upd[p].new \in {"kicked", "restricted", "administrator", "creator", "member"}
          IN  /\ (GetBotUser(p, TRUE) /\ botUsers[upd[p].user].exists /\ active)
                    => pc'[p] # "idle"
              /\ (UpdateChannelStatus(p, TRUE) /\ botUsers[upd[p].user].exists /\ active)
                    => botUsers'[upd[p].user].campusFreeChannel = "joined"]_vars

\* C18 amended: for a known user in the configured channel, a new status of member,
\* administrator or creator is persisted as joined, a new status of left or kicked is
\* persisted as left, and an update to restricted ends without a status write.
C18_StatusMapping ==
    [][\A p \in Procs :
          /\ (GetBotUser(p, TRUE) /\ botUsers[upd[p].user].exists)
                => /\ pc'[p] = "idle" <=> upd[p].new = "restricted"
                   /\ botUsers' = botUsers
          /\ (UpdateChannelStatus(p, TRUE) /\ botUsers[upd[p].user].exists)
                => \/ /\ upd[p].new \in {"member", "administrator", "creator"}
                      /\ botUsers'[upd[p].user].campusFreeChannel = "joined"
                   \/ /\ upd[p].new \in {"left", "kicked"}
                      /\ botUsers'[upd[p].user].campusFreeChannel = "left"]_vars

C18_Witness ==
    \E p \in Procs :
        /\ pc[p] = "idle"
        /\ upd[p].chat = CAMPUS_CHANNEL_ID
        /\ upd[p].user = "u1"
        /\ upd[p].new = "kicked"
        /\ botUsers["u1"].campusFreeChannel = "left"
        /\ lastReq = [ep |-> "webhook", status |-> 200]

\* C19: for a known user, an update to member, administrator or creator whose old
\* status is neither left nor kicked goes from the lookup straight to the status write,
\* which persists joined; neither step issues a conversion call, and every call that is
\* issued belongs to an update whose old status is left or kicked.
C19_NoConversionWithoutPriorLeft ==
    [][\A p \in Procs :
          LET firstSeen == /\ botUsers[upd[p].user].exists
                           /\ upd[p].new \in {"member", "administrator", "creator"}
                           /\ upd[p].old \notin {"left", "kicked"}
          IN  /\ (GetBotUser(p, TRUE) /\ firstSeen)
                    => /\ pc'[p] = "updateStatus"
                       /\ conversions' = conversions
              /\ (UpdateChannelStatus(p, TRUE) /\ firstSeen)
                    => /\ botUsers'[upd[p].user].campusFreeChannel = "joined"
                       /\ conversions' = conversions
              /\ conversions' # conversions
                    => /\ upd[p].old \in {"left", "kicked"}
                       /\ conversions'[Len(conversions')].update_id = upd[p].update_id]_vars

C19_Witness ==
    \E p \in Procs :
        /\ pc[p] = "idle"
        /\ upd[p].chat = CAMPUS_CHANNEL_ID
        /\ upd[p].user = "u1"
        /\ upd[p].old = "restricted"
        /\ upd[p].new = "member"
        /\ botUsers["u1"].campusFreeChannel = "joined"
        /\ linkClicks # << >>
        /\ \A i \in DOMAIN linkClicks : HasBothCookies(linkClicks[i])
        /\ conversions = << >>

\* C20: a detected join whose located click record is complete issues a call for that
\* record also when calls were already issued for it: the user with one complete click
\* joins, leaves and joins again within two minutes of the click, and two calls go
\* out for the one record.
C20_NoConvertedMarker ==
    [][\A p \in Procs :
          (/\ FireChannelJoinConversion(p, TRUE)
           /\ Located(upd[p].user) # {}
           /\ \A i \in Located(upd[p].user) : HasBothCookies(linkClicks[i])
           /\ \E k \in DOMAIN conversions : conversions[k].click \in Located(upd[p].user))
            => /\ Len(conversions') = Len(conversions) + 1
               /\ conversions'[Len(conversions')].click \in Located(upd[p].user)
               /\ conversions'[Len(conversions')].user = upd[p].user]_vars

C20_Witness ==
    /\ now <= 3
    /\ linkClicks = <<ScenarioClick("A", "B")>>
    /\ Len(conversions) = 2
    /\ conversions[1] = [update_id |-> 1, user |-> "u1", fbc |-> "A", fbp |-> "B", click |-> 1]
    /\ conversions[2] = [update_id |-> 3, user |-> "u1", fbc |-> "A", fbp |-> "B", click |-> 1]
    /\ botUsers["u1"].campusFreeChannel = "joined"

\* C21: the URL a recorded visit sends the browser to is the message's configured URL
\* with the visit's fbclid appended once, after "?" if the configured URL has no query
\* string and after "&" if it has one, and the configured URL unchanged if the visit
\* carried no fbclid.
C21_FbclidAppendedOnce ==
    (lastReq.ep = "click" /\ lastReq.status \in {200, 302}) =>
        LET c == linkClicks[Len(linkClicks)]
            configured == UrlTokens(ButtonLinkOf(c.welcomeMessageId))
        IN  lastOut.redirect =
                IF c.fbclid = Null THEN configured
                ELSE configured \o <<Separator(configured), "fbclid=", c.fbclid>>

\* C27: in handling a detected join the conversion call goes out strictly before the
\* status write: the call is issued in the step before the fetch is awaited, no step of
\* the handler before the status-write step touches bot_users, so the stored status at
\* the call is the one found when the update arrived; and a status write that fails
\* leaves the call issued and the stored status as it was.
C27_CallBeforeStatusWrite ==
    [][\A p \in Procs :
          /\ conversions' # conversions
                => /\ pc[p] = "getRecentClick"
                   /\ pc'[p] = "awaitFetch"
                   /\ botUsers' = botUsers
          /\ botUsers' # botUsers
                => /\ pc[p] = "updateStatus"
                   /\ conversions' = conversions
          /\ UpdateChannelStatus(p, FALSE)
                => /\ botUsers' = botUsers
                   /\ conversions' = conversions]_vars

C27_Witness ==
    \E p \in Procs :
        /\ pc[p] = "idle"
        /\ lastReq = [ep |-> "webhook", status |-> 200]
        /\ upd[p].user = "u1"
        /\ upd[p].old = "left"
        /\ upd[p].new = "member"
        /\ conversions # << >>
        /\ conversions[Len(conversions)].update_id = upd[p].update_id
        /\ botUsers["u1"].campusFreeChannel # "joined"
        /\ botUsers["u1"].channelJoinedAt = NoTime

\* C23 as stated: a new row starts at notjoined, no row returns to notjoined, and a
\* row's status becomes left only from joined, never directly from notjoined.
C23_LeftOnlyFromJoined ==
    [][\A u \in Users :
          /\ (~botUsers[u].exists /\ botUsers'[u].exists)
                => botUsers'[u].campusFreeChannel = "notjoined"
          /\ (botUsers[u].exists /\ botUsers'[u].campusFreeChannel = "notjoined")
                => botUsers[u].campusFreeChannel = "notjoined"
          /\ (/\ botUsers[u].exists
              /\ botUsers'[u].campusFreeChannel = "left"
              /\ botUsers[u].campusFreeChannel # "left")
                => botUsers[u].campusFreeChannel = "joined"]_vars

\* C23: a new row starts at notjoined and no row returns to notjoined; the status is
\* changed only by the status write of an update about that user, to the value the
\* update's new status maps to, whatever the stored status: a write for left or kicked
\* stores left from joined, from left and from notjoined alike.
C23_StatusFollowsUpdates ==
    [][\A u \in Users :
          /\ (~botUsers[u].exists /\ botUsers'[u].exists)
                => botUsers'[u].campusFreeChannel = "notjoined"
          /\ (botUsers[u].exists /\ botUsers'[u].campusFreeChannel = "notjoined")
                => botUsers[u].campusFreeChannel = "notjoined"
          /\ (botUsers[u].exists
                /\ botUsers'[u].campusFreeChannel # botUsers[u].campusFreeChannel)
                => \E p \in Procs :
                      /\ pc[p] = "updateStatus"
                      /\ upd[p].user = u
                      /\ botUsers'[u].campusFreeChannel =
                            IF upd[p].new \in {"member", "administrator", "creator"}
                            THEN "joined" ELSE "left"
          /\ \A p \in Procs :
                (/\ UpdateChannelStatus(p, TRUE)
                 /\ upd[p].user = u
                 /\ botUsers[u].exists
                 /\ upd[p].new \in {"left", "kicked"})
                    => botUsers'[u].campusFreeChannel = "left"]_vars

C23_Witness ==
    /\ botUsers["u1"].campusFreeChannel = "left"
    /\ botUsers["u1"].channelJoinedAt = NoTime
    /\ \A p \in Procs : pc[p] = "idle" /\ upd[p].user = "u1" /\ upd[p].new \in {"left", "kicked"}

\* C24: the lookup step decides on the most recent click record of the user inside the
\* two-minute window, whatever message it is of: when every such most recent record
\* lacks a cookie no call goes out, even with an older complete record of the user in
\* the window, and a call that goes out carries the tokens and the id of a most recent
\* record.
C24_MostRecentRecordDecides ==
    [][\A p \in Procs :
          (pc[p] = "getRecentClick" /\ pc'[p] # pc[p]) =>
              /\ (\A i \in Located(upd[p].user) : ~HasBothCookies(linkClicks[i]))
                    => conversions' = conversions
              /\ conversions' # conversions
                    => \E i \in Located(upd[p].user) :
                          /\ conversions'[Len(conversions')].click = linkClicks[i].id
                          /\ conversions'[Len(conversions')].fbc = linkClicks[i].fbc
                          /\ conversions'[Len(conversions')].fbp = linkClicks[i].fbp]_vars

C24_Witness ==
    \E p \in Procs :
        /\ pc[p] = "idle"
        /\ upd[p].user = "u1"
        /\ upd[p].new = "member"
        /\ upd[p].update_id > 0
        /\ botUsers["u1"].campusFreeChannel = "joined"
        /\ botUsers["u1"].channelJoinedAt = now
        /\ conversions = << >>
        /\ Len(linkClicks) = 2
        /\ linkClicks[1].welcomeMessageId = "m1"
        /\ HasBothCookies(linkClicks[1])
        /\ linkClicks[1].clickedAt >= now - TwoMinutes
        /\ linkClicks[2].welcomeMessageId = "m2"
        /\ linkClicks[2].fbc = Null
        /\ linkClicks[2].clickedAt > linkClicks[1].clickedAt

\* C26: a cookie completion answers 200 and inserts nothing, and with no record of its
\* (message, user) pair in its window it changes nothing; a record inserted after it by
\* a visit without cookies has fbc and fbp null whatever was completed before; and a
\* join whose lookup finds such a record as the most recent one issues no call.
C26_CompletionBeforeInsert ==
    [][/\ lastReq'.ep = "cookies" /\ lastReq' # lastReq
            => \A m \in {"m1", "m2"}, ck \in {<<"A", "B">>, <<"", "">>} :
                  UpdateClickData(m, "u1", Undef, ck[1], ck[2], TRUE)
                    => /\ lastReq'.status = 200
                       /\ Len(linkClicks') = Len(linkClicks)
                       /\ (\A i \in DOMAIN linkClicks :
                              ~RecentMatch(linkClicks[i], m, "u1", now))
                            => linkClicks' = linkClicks
       /\ Len(linkClicks') > Len(linkClicks)
            => /\ linkClicks'[Len(linkClicks')].fbc = Null
               /\ linkClicks'[Len(linkClicks')].fbp = Null
               /\ \A i \in DOMAIN linkClicks : linkClicks'[i] = linkClicks[i]
       /\ \A p \in Procs :
            (/\ pc[p] = "getRecentClick"
             /\ pc'[p] # pc[p]
             /\ \A i \in Located(upd[p].user) :
                    linkClicks[i].fbc = Null /\ linkClicks[i].fbp = Null)
                => /\ conversions' = conversions
                   /\ pc'[p] = "updateStatus"]_vars

C26_Witness ==
    \E p \in Procs :
        /\ pc[p] = "idle"
        /\ upd[p].user = "u1"
        /\ upd[p].new = "member"
        /\ upd[p].update_id > 0
        /\ botUsers["u1"].campusFreeChannel = "joined"
        /\ conversions = << >>
        /\ Len(linkClicks) = 2
        /\ linkClicks[1].welcomeMessageId = "m1"
        /\ linkClicks[2].welcomeMessageId = "m1"
        /\ HasBothCookies(linkClicks[1])
        /\ linkClicks[2].fbc = Null
        /\ linkClicks[2].fbp = Null
        /\ linkClicks[2].clickedAt >= botUsers["u1"].channelJoinedAt - TwoMinutes

\* C28: a cookie completion that carries no cookie values sets fbc and fbp to null on
\* every record of its (message, user) pair clicked within the last five minutes,
\* whatever they held, and leaves the other records alone; a join whose lookup then
\* finds such a record as the most recent one issues no call.
C28_EmptyCompletionErases ==
    [][/\ lastReq'.ep = "cookies" /\ lastReq' # lastReq
            => \A m \in {"m1", "m2"} :
                  UpdateClickData(m, "u1", Undef, "", "", TRUE)
                    => \A i \in DOMAIN linkClicks :
                          IF RecentMatch(linkClicks[i], m, "u1", now)
                          THEN /\ linkClicks'[i].fbc = Null
                               /\ linkClicks'[i].fbp = Null
                          ELSE linkClicks'[i] = linkClicks[i]
       /\ \A p \in Procs :
            (/\ pc[p] = "getRecentClick"
             /\ pc'[p] # pc[p]
             /\ \E i \in Located(upd[p].user) : TRUE
             /\ \A i \in Located(upd[p].user) : linkClicks[i].fbc = Null)
                => conversions' = conversions]_vars

C28_Witness ==
    \E p \in Procs :
        /\ pc[p] = "idle"
        /\ upd[p].user = "u1"
        /\ upd[p].new = "member"
        /\ Len(linkClicks) = 1
        /\ linkClicks[1].fbc = Null
        /\ linkClicks[1].fbp = Null
        /\ Len(conversions) = 1
        /\ conversions[1].click = linkClicks[1].id
        /\ conversions[1].fbc = "A"
        /\ upd[p].update_id > conversions[1].update_id
        /\ botUsers["u1"].channelJoinedAt <= linkClicks[1].clickedAt + TwoMinutes

\* C29: there is at most one bot_users row per telegramId, however /start messages
\* interleave; an existing row keeps its source, and its fbclid changes only in the
\* duplicate-key path of a /start of that user that carries one, to the one it carries.
C29_OneRowPerTelegramId ==
    /\ [](\A u \in Users : botUsers[u].rows <= 1 /\ (botUsers[u].exists <=> botUsers[u].rows = 1))
    /\ [][\A u \in Users :
            botUsers[u].exists =>
                /\ botUsers'[u].exists
                /\ botUsers'[u].source = botUsers[u].source
                /\ botUsers'[u].fbclid # botUsers[u].fbclid
                      => \E s \in StartSlots :
                            /\ starts[s].pc = "duplicate"
                            /\ starts'[s].pc = "idle"
                            /\ starts[s].user = u
                            /\ starts[s].fbclid # Null
                            /\ botUsers'[u].fbclid = starts[s].fbclid]_vars

C29_Witness ==
    /\ \A s \in StartSlots : starts[s].pc = "idle"
    /\ botUsers["u2"].rows = 1
    /\ botUsers["u2"].source = "facebookads"
    /\ botUsers["u2"].fbclid = "F"
    /\ botUsers["u2"].lastActiveAt = now

\* C22: the channel status and channelJoinedAt of an existing bot user change only in
\* the status-write step of a chat_member update about that user; recording a click,
\* completing its cookies, firing the conversion, a /start of the user and an activity
\* update leave both as they are.
C22_ChannelFieldsFrame ==
    [][\A u \in Users :
          (/\ botUsers[u].exists
           /\ \/ botUsers'[u].campusFreeChannel # botUsers[u].campusFreeChannel
              \/ botUsers'[u].channelJoinedAt # botUsers[u].channelJoinedAt)
            => \E p \in Procs :
                  /\ pc[p] = "updateStatus"
                  /\ pc'[p] = "idle"
                  /\ upd[p].user = u
                  /\ starts' = starts
                  /\ linkClicks' = linkClicks
                  /\ conversions' = conversions]_vars

C22_Witness ==
    /\ botUsers["u1"].campusFreeChannel = "joined"
    /\ botUsers["u1"].channelJoinedAt # NoTime
    /\ botUsers["u1"].channelJoinedAt < botUsers["u1"].lastActiveAt
    /\ botUsers["u1"].fbclid = "F"
    /\ botUsers["u1"].source = "Direct"
    /\ \A s \in StartSlots : starts[s].pc = "idle"
    /\ Len(conversions) = 1
    /\ linkClicks # << >>
    /\ linkClicks[Len(linkClicks)].clickedAt > botUsers["u1"].channelJoinedAt

\* C25: an update that carries a message is handled as a message, with or without a
\* chat_member beside it: it is answered with a bot message and starts no membership
\* handling; an update that carries a chat_member and no message starts membership
\* handling and sends no message; an update that carries neither is answered 200 with
\* no store write, no bot message and no conversion call.
C25_DispatcherRoutes ==
    [][\A p \in Procs, update \in UpdateShapes, kind \in {"start", "text"}, from \in Users,
          ch \in PipelineChanges :
          WebhookUpdate(p, update, kind, from, "u1", ch[1], ch[2]) =>
              IF update.message
              THEN /\ lastOut'.messaged
                   /\ lastReq' = [ep |-> "webhook", status |-> 200]
                   /\ botUsers' = BotUsersAfter(botUsers, kind, from, TRUE, now)
                   /\ UNCHANGED <<pc, upd, nextUpdateId, conversions, linkClicks>>
              ELSE IF update.chat_member
              THEN /\ pc[p] = "idle"
                   /\ pc'[p] = "getBotUser"
                   /\ upd'[p].user = "u1"
                   /\ upd'[p].old = ch[1]
                   /\ upd'[p].new = ch[2]
                   /\ UNCHANGED <<lastOut, botUsers, conversions, linkClicks>>
              ELSE /\ lastReq' = [ep |-> "webhook", status |-> 200]
                   /\ ~lastOut'.messaged
                   /\ UNCHANGED <<pc, upd, nextUpdateId, botUsers, conversions, linkClicks,
                                  welcomeMessages>>]_vars

C25_Witness ==
    /\ lastReq = [ep |-> "webhook", status |-> 200]
    /\ lastOut.messaged
    /\ botUsers["u2"].exists
    /\ \E p \in Procs :
          /\ pc[p] = "getBotUser"
          /\ upd[p].user = "u1"
          /\ upd[p].new = "member"
    /\ Len(conversions) = 1

\* C30: welcome_messages has at most one row per source, however upsertWelcomeMessage
\* calls interleave.
C30_OneRowPerSource ==
    \A m1, m2 \in welcomeMessages : m1.source = m2.source => m1.id = m2.id

====
